---- MODULE Spec2Model ----
(***************************************************************************)
(* Model of annual_ipgp (src/IPGP_detection.py): detection of the          *)
(* Initiation of Phytoplankton Growing Period from a daily fluorescence    *)
(* series.                                                                 *)
(*                                                                         *)
(* The statements of the function body are modelled in their textual       *)
(* order (lines 47-72), one action per statement group and one action per  *)
(* iteration of the slope loop.  Lines 47 and 50 of the file are dedented  *)
(* to column 0; the model follows the evident intent that they belong to   *)
(* the function body.                                                      *)
(*                                                                         *)
(* Numbers: the time axis is a sequence of day numbers, fluorescence is a  *)
(* sequence of naturals, and every slope is an exact rational <<num, den>> *)
(* in lowest terms with den > 0 (floating-point rounding is not modelled). *)
(***************************************************************************)
EXTENDS Integers, Sequences, FiniteSets

VARIABLES time, data, year, slope_window,
          pc, data_cumul, it, i, slopes, median_slope, d, out,
          ipgp_str_date, err

vars == <<time, data, year, slope_window,
          pc, data_cumul, it, i, slopes, median_slope, d, out,
          ipgp_str_date, err>>

inputs == <<time, data, year, slope_window>>

(***************************************************************************)
(* Bounds of the explored inputs.                                          *)
(***************************************************************************)
MaxWindow == 5
MaxVal == 2
MaxPad == 1

(***************************************************************************)
(* Exact rational arithmetic.                                              *)
(***************************************************************************)
Abs(a) == IF a < 0 THEN -a ELSE a

RECURSIVE GCD(_, _)
GCD(a, b) == IF b = 0 THEN a ELSE GCD(b, a % b)

Rat(num, den) ==
    LET s == IF den < 0 THEN -1 ELSE 1
        g == GCD(Abs(num), Abs(den))
    IN  <<(s * num) \div g, (s * den) \div g>>

RatLeq(a, b) == a[1] * b[2] <= b[1] * a[2]

RatLess(a, b) == a[1] * b[2] < b[1] * a[2]

RatMean(a, b) == Rat(a[1] * b[2] + b[1] * a[2], 2 * a[2] * b[2])

\* Sum of s[lo..hi], by halving (the windows and arrays are long).
RECURSIVE RangeSum(_, _, _)
RangeSum(s, lo, hi) ==
    IF lo > hi THEN 0
    ELSE IF lo = hi THEN s[lo]
    ELSE LET mid == (lo + hi) \div 2
         IN  RangeSum(s, lo, mid) + RangeSum(s, mid + 1, hi)

SeqSum(s) == RangeSum(s, 1, Len(s))

(***************************************************************************)
(* Python / numpy primitives used by the function.                         *)
(***************************************************************************)
\* Variant: a slice that reaches past the end yields nothing (no clamping).
Slice_Strict(s, a, b) ==
    IF b > Len(s) \/ a >= b THEN <<>> ELSE SubSeq(s, a + 1, b)

\* Variant: the window starts one sample late.
Slice_Shifted(s, a, b) ==
    LET lo == IF a + 1 > Len(s) THEN Len(s) ELSE a + 1
        hi == IF b + 1 > Len(s) THEN Len(s) ELSE b + 1
    IN  IF lo >= hi THEN <<>> ELSE SubSeq(s, lo + 1, hi)

\* s[a:b] for 0 <= a <= b: the bounds are clamped to the length, never an error.
Slice(s, a, b) ==
    LET lo == IF a > Len(s) THEN Len(s) ELSE a
        hi == IF b > Len(s) THEN Len(s) ELSE b
    IN  IF lo >= hi THEN <<>> ELSE SubSeq(s, lo + 1, hi)

\* np.cumsum(data): running sums, same length as the input.
RECURSIVE cumsum(_)
cumsum(s) ==
    IF Len(s) <= 1 THEN s
    ELSE LET h     == Len(s) \div 2
             left  == cumsum(SubSeq(s, 1, h))
             right == cumsum(SubSeq(s, h + 1, Len(s)))
         IN  left \o [j \in 1..Len(right) |-> left[h] + right[j]]

\* np.arange(start, stop, 1)
arange(start, stop) == [j \in 1..(stop - start) |-> start + j - 1]

\* Number of candidate days scanned.
NDays == 366

\* Variant: the scan length follows the calendar length of the year.
n_Calendar == arange(0, IF (year % 4 = 0 /\ year % 100 # 0) \/ year % 400 = 0 THEN 366 ELSE 365)

n == arange(0, NDays)

\* The checks np.polyfit(x, y, 1) makes before fitting.
PolyfitError(x, y) ==
    IF Len(x) = 0 THEN "TypeError: expected non-empty vector for x"
    ELSE IF Len(x) # Len(y) THEN "TypeError: expected x and y to have same length"
    ELSE "none"

\* np.polyfit(x, y, 1)[0]: the ordinary least-squares slope.  With a single
\* sample the system is rank deficient and lstsq returns the minimum-norm
\* solution of the column-scaled system, whose slope is y / (2x).
PolyfitSlope(x, y) ==
    LET m   == Len(x)
        Sx  == SeqSum(x)
        Sy  == SeqSum(y)
        Sxy == SeqSum([j \in 1..m |-> x[j] * y[j]])
        Sxx == SeqSum([j \in 1..m |-> x[j] * x[j]])
    IN  IF m = 1 THEN Rat(y[1], 2 * x[1])
        ELSE Rat(m * Sxy - Sx * Sy, m * Sxx - Sx * Sx)

\* k-th smallest element (k = 1 is the minimum) of a sequence of rationals.
OrderStat(s, k) ==
    CHOOSE v \in {s[j] : j \in 1..Len(s)} :
        /\ Cardinality({j \in 1..Len(s) : RatLess(s[j], v)}) < k
        /\ Cardinality({j \in 1..Len(s) : RatLeq(s[j], v)}) >= k

\* np.median(s): the middle element, or the mean of the two middle elements.
median(s) ==
    LET m == Len(s)
    IN  IF m % 2 = 1 THEN OrderStat(s, (m + 1) \div 2)
        ELSE RatMean(OrderStat(s, m \div 2), OrderStat(s, m \div 2 + 1))

\* Variant: strict comparison.
Threshold_Strict(x, m) == RatLess(m, x)

\* The comparison slopes >= median_slope, element by element.
Threshold(x, m) == RatLeq(m, x)

\* np.where(slopes >= m)[0]: the array of all qualifying 0-based indices.
where(s, m) ==
    SelectSeq(arange(0, Len(s)), LAMBDA j : Threshold(s[j + 1], m))

\* Python values are tagged with their type: np.where(...)[0] is an array.
ndarray(v) == [kind |-> "ndarray", val |-> v]

unset == [kind |-> "unset", val |-> <<>>]

\* datetime.timedelta(days=v) accepts a Python int (or float) only; a numpy
\* array or numpy integer raises TypeError.
TimedeltaError(v) ==
    IF v.kind = "int" THEN "none"
    ELSE "TypeError: unsupported type for timedelta days component"

IsLeap(y) == (y % 4 = 0 /\ y % 100 # 0) \/ y % 400 = 0

DaysInYear(y) == IF IsLeap(y) THEN 366 ELSE 365

DaysInMonth(y, m) ==
    IF m = 2 THEN (IF IsLeap(y) THEN 29 ELSE 28)
    ELSE IF m \in {4, 6, 9, 11} THEN 30 ELSE 31

\* Month and day of the 0-based day-of-year k of year y, scanning from month m.
RECURSIVE MonthDay(_, _, _)
MonthDay(y, m, k) ==
    IF k < DaysInMonth(y, m) THEN <<m, k + 1>>
    ELSE MonthDay(y, m + 1, k - DaysInMonth(y, m))

\* (date(y, 1, 1) + timedelta(days=k)).strftime('%Y/%m/%d') for 0 <= k <= 365,
\* as the fields <<YYYY, MM, DD>>.
DateStr(y, k) ==
    IF k >= DaysInYear(y) THEN <<y + 1>> \o MonthDay(y + 1, 1, k - DaysInYear(y))
    ELSE <<y>> \o MonthDay(y, 1, k)

(***************************************************************************)
(* Inputs.                                                                 *)
(***************************************************************************)
Windows == 2..MaxWindow

Years == {2011, 2012}

Shapes ==
    [kind : {"const"}, at : {0}, v : 0..MaxVal]
    \cup [kind : {"step"}, at : {180, 183}, v : 1..MaxVal]
    \cup [kind : {"saw"}, at : {0}, v : 2..(MaxVal + 1)]
    \cup [kind : {"ramp"}, at : {0}, v : {1}]

Fluorescence(shape, len) ==
    [j \in 1..len |->
        CASE shape.kind = "const" -> shape.v
          [] shape.kind = "step"  -> IF j <= shape.at THEN 0 ELSE shape.v
          [] shape.kind = "saw"   -> ((j * j) % (shape.v + 3)) % (shape.v + 1)
          [] shape.kind = "ramp"  -> j]

\* Daily time axis: consecutive day numbers starting at 1.
DailyAxis(len) == [j \in 1..len |-> j]

Call(lt, ld, shape, y, w) ==
    [time |-> DailyAxis(lt), data |-> Fluorescence(shape, ld), year |-> y, slope_window |-> w]

\* Arrays of equal length, long enough for every window of the scan.
ValidCalls ==
    {Call(NDays + w + p, NDays + w + p, s, y, w) :
        p \in 0..MaxPad, s \in Shapes, y \in Years, w \in Windows}

\* 400 days from 2012-01-01, 180 zeros then 220 tens, window 5.
StepScenario ==
    {Call(400, 400, [kind |-> "step", at |-> 180, v |-> 10], 2012, 5)}

\* Arrays too short for the scan: empty, one sample, 365 samples, and every
\* length from 366 up to one less than 366 + slope_window.
ShortLengths == {0, 1, NDays - 1} \cup {NDays + k : k \in 0..(MaxWindow - 1)}

ShortCalls ==
    {Call(c[1], c[1], s, 2012, c[2]) :
        c \in {c \in ShortLengths \X Windows : c[1] < NDays + c[2]},
        s \in {[kind |-> "const", at |-> 0, v |-> 1], [kind |-> "step", at |-> 180, v |-> 1]}}

\* time and data of different lengths.
MismatchedCalls ==
    {Call(368, 400, [kind |-> "const", at |-> 0, v |-> 1], 2012, 3),
     Call(400, 368, [kind |-> "const", at |-> 0, v |-> 1], 2012, 3)}

Calls == ValidCalls \cup StepScenario \cup ShortCalls \cup MismatchedCalls

Init ==
    /\ \E c \in Calls :
        /\ time = c.time
        /\ data = c.data
        /\ year = c.year
        /\ slope_window = c.slope_window
    /\ pc = "L47"
    /\ data_cumul = <<>>
    /\ it = 0
    /\ i = -1
    /\ slopes = <<>>
    /\ median_slope = <<0, 1>>
    /\ d = unset
    /\ out = <<>>
    /\ ipgp_str_date = <<>>
    /\ err = "none"

(***************************************************************************)
(* Lines 47-53: cumulative sum, index range n, empty slope list.           *)
(***************************************************************************)
Cumulate ==
    /\ pc = "L47"
    /\ data_cumul' = cumsum(data)
    /\ slopes' = <<>>
    /\ it' = 0
    /\ pc' = "L56"
    /\ UNCHANGED <<inputs, i, median_slope, d, out, ipgp_str_date, err>>

(***************************************************************************)
(* Lines 56-59: one iteration of `for i in n`.  it is the number of        *)
(* elements of n already taken; the iteration binds i to the next one.     *)
(***************************************************************************)
FitSlope ==
    /\ pc = "L56"
    /\ it < Len(n)
    /\ i' = n[it + 1]
    /\ it' = it + 1
    /\ LET x == Slice(time, i', i' + slope_window)
           y == Slice(data_cumul, i', i' + slope_window)
       IN  IF PolyfitError(x, y) # "none"
           THEN /\ err' = PolyfitError(x, y)
                /\ pc' = "failed"
                /\ UNCHANGED slopes
           ELSE /\ slopes' = Append(slopes, PolyfitSlope(x, y))
                /\ UNCHANGED <<pc, err>>
    /\ UNCHANGED <<inputs, data_cumul, median_slope, d, out, ipgp_str_date>>

(***************************************************************************)
(* Lines 62-63: the loop is exhausted; threshold = median of the slopes.   *)
(***************************************************************************)
MedianSlope ==
    /\ pc = "L56"
    /\ it = Len(n)
    /\ median_slope' = median(slopes)
    /\ pc' = "L66"
    /\ UNCHANGED <<inputs, data_cumul, it, i, slopes, d, out, ipgp_str_date, err>>

(***************************************************************************)
(* Lines 66-67: ind = np.where(slopes >= median_slope); d = ind[0].        *)
(***************************************************************************)
Detect ==
    /\ pc = "L66"
    /\ d' = ndarray(where(slopes, median_slope))
    /\ pc' = "L70"
    /\ UNCHANGED <<inputs, data_cumul, it, i, slopes, median_slope, out, ipgp_str_date, err>>

(***************************************************************************)
(* Line 70: first log line, the text followed by str(d).                   *)
(***************************************************************************)
WriteJulian ==
    /\ pc = "L70"
    /\ out' = Append(out, [text |-> "IPGP julian date : date", value |-> d])
    /\ pc' = "L71"
    /\ UNCHANGED <<inputs, data_cumul, it, i, slopes, median_slope, d, ipgp_str_date, err>>

(***************************************************************************)
(* Line 71: date(year,1,1) + timedelta(days=d), formatted.  timedelta      *)
(* rejects the array d, so the call ends here with the exception and       *)
(* lines 72-100 (second log line, figure) are never executed.              *)
(***************************************************************************)
ConvertDate ==
    /\ pc = "L71"
    /\ IF TimedeltaError(d) # "none"
       THEN /\ err' = TimedeltaError(d)
            /\ pc' = "failed"
            /\ UNCHANGED ipgp_str_date
       ELSE /\ ipgp_str_date' = DateStr(year, d.val)
            /\ pc' = "L72"
            /\ UNCHANGED err
    /\ UNCHANGED <<inputs, data_cumul, it, i, slopes, median_slope, d, out>>

Next == Cumulate \/ FitSlope \/ MedianSlope \/ Detect \/ WriteJulian \/ ConvertDate

Spec == Init /\ [][Next]_vars

(***************************************************************************)
(* Vocabulary of the properties.                                           *)
(***************************************************************************)
SameLength == Len(time) = Len(data)

\* The arrays cover every window of the 366-day scan.
ValidInput == SameLength /\ Len(data) >= 366 + slope_window

ShortInput == SameLength /\ Len(data) < 366 + slope_window

AfterLoop == pc \in {"L66", "L70", "L71", "L72"} \/ (pc = "failed" /\ d # unset)

Ended == pc \in {"failed", "returned"}

Qualifies(j) == RatLeq(median_slope, slopes[j + 1])

\* Smallest index whose slope reaches the median.
FirstCrossing ==
    CHOOSE j \in 0..365 : Qualifies(j) /\ \A l \in 0..(j - 1) : ~Qualifies(l)

ConstantPositive == Len(data) > 0 /\ data[1] > 0 /\ \A j \in 1..Len(data) : data[j] = data[1]

IsStepScenario ==
    /\ Len(data) = 400 /\ SameLength /\ slope_window = 5 /\ year = 2012
    /\ \A j \in 1..400 : data[j] = IF j <= 180 THEN 0 ELSE 10

\* s is the least-squares slope of ys against xs: with an intercept, the
\* residuals sum to zero and are orthogonal to xs.
IsLeastSquaresSlope(s, xs, ys) ==
    LET m  == Len(xs)
        Sx == SeqSum(xs)
        Sy == SeqSum(ys)
    IN  /\ m = Len(ys)
        /\ m >= 2
        /\ SeqSum([j \in 1..m |->
                (m * xs[j] - Sx) * (s[2] * (m * ys[j] - Sy) - s[1] * (m * xs[j] - Sx))]) = 0

\* The k-th slope (index k - 1) is the fit over its full window.
SlopeIsWindowFit(k) ==
    /\ (k - 1) + slope_window <= Len(data)
    /\ IsLeastSquaresSlope(slopes[k],
                           SubSeq(time, k, k - 1 + slope_window),
                           SubSeq(data_cumul, k, k - 1 + slope_window))

\* The k-th slope is the fit over a window cut short by the end of the arrays.
SlopeIsTruncatedFit(k) ==
    /\ (k - 1) + slope_window > Len(data)
    /\ k < Len(data) =>
          IsLeastSquaresSlope(slopes[k], SubSeq(time, k, Len(data)),
                              SubSeq(data_cumul, k, Len(data)))
    /\ k = Len(data) => slopes[k] = Rat(data_cumul[k], 2 * time[k])

IsRunningSum ==
    /\ Len(data_cumul) = Len(data)
    /\ \A j \in 1..Len(data) :
          data_cumul[j] = (IF j = 1 THEN 0 ELSE data_cumul[j - 1]) + data[j]

(***************************************************************************)
(* C1: for every valid input, the detected value d is the smallest index   *)
(* in 0..365 whose slope is >= the median, a single index and not the set  *)
(* of all qualifying indices.                                              *)
(***************************************************************************)
C1_FirstCrossing ==
    (ValidInput /\ d # unset) => (d.kind = "int" /\ d.val = FirstCrossing)

(***************************************************************************)
(* C2: every call with valid input that has ended has returned the         *)
(* detected index to its caller, a single integer in 0..365.               *)
(***************************************************************************)
C2_ReturnsIndex ==
    (ValidInput /\ Ended) => (pc = "returned" /\ d.kind = "int" /\ d.val \in 0..365)

(***************************************************************************)
(* C3: once the date conversion of line 71 has been attempted, it has      *)
(* succeeded, and the date is January 1 of year plus d days (2012, d = 45  *)
(* gives 2012/02/15).                                                      *)
(***************************************************************************)
C3_DateOfIndex ==
    /\ DateStr(2012, 45) = <<2012, 2, 15>>
    /\ (ValidInput /\ (pc = "L72" \/ (pc = "failed" /\ d # unset))) =>
          (pc = "L72" /\ d.kind = "int" /\ ipgp_str_date = DateStr(year, d.val))

(***************************************************************************)
(* C4: with one constant positive value over all 366 + slope_window days,  *)
(* all 366 slopes are identical, the median equals that value, every index *)
(* 0..365 qualifies, and the detected index is 0.                          *)
(***************************************************************************)
C4_ConstantSeries ==
    (ValidInput /\ ConstantPositive /\ d # unset) =>
        /\ \A k \in 1..366 : slopes[k] = <<data[1], 1>>
        /\ median_slope = <<data[1], 1>>
        /\ \A j \in 0..365 : Qualifies(j)
        /\ d.kind = "int"
        /\ d.val = 0

(***************************************************************************)
(* C5: for 400 days, 180 zeros then 220 tens, window 5, year 2012, the     *)
(* detected index is a day within 180 +/- 5.                               *)
(***************************************************************************)
C5_StepScenario ==
    (IsStepScenario /\ d # unset) => (d.kind = "int" /\ d.val \in 175..185)

(***************************************************************************)
(* C6: the slope loop takes i = 0, 1, ..., 365 in increasing order, one    *)
(* slope per iteration, and the slope sequence has exactly 366 entries     *)
(* when the median is taken, whatever slope_window and year are.           *)
(***************************************************************************)
C6_FixedScan ==
    /\ pc = "L56" => (Len(slopes) = it /\ i = it - 1 /\ it <= 366)
    /\ AfterLoop => (Len(slopes) = 366 /\ i = 365)

C6_Witness ==
    pc = "L66" /\ year = 2011 /\ slope_window = 5 /\ ValidInput /\ Len(slopes) = 366

(***************************************************************************)
(* C7: every call with valid input that has ended has emitted exactly two  *)
(* log lines, the index line and then the date line.                       *)
(***************************************************************************)
C7_TwoLogLines ==
    (ValidInput /\ Ended) =>
        /\ Len(out) = 2
        /\ out[1].text = "IPGP julian date : date"
        /\ out[2].text = "IPGP date : date"

(***************************************************************************)
(* C8: among 366 slopes, the indices with slope >= median are never none   *)
(* and are at least half of them (183).                                    *)
(***************************************************************************)
C8_HalfQualify ==
    (d # unset /\ Len(slopes) = 366) =>
        /\ d.val # <<>>
        /\ Len(d.val) >= 183
        /\ \A j \in 0..365 : Qualifies(j) <=> (\E k \in 1..Len(d.val) : d.val[k] = j)

\* All slopes distinct: exactly half of the indices qualify.
C8_Witness ==
    d # unset /\ Len(slopes) = 366 /\ Len(d.val) = 183

(***************************************************************************)
(* C9: when time and data have the same length >= 366 + slope_window, the  *)
(* cumulative series is the running sum of data with the same length, each *)
(* window [i, i + slope_window) lies inside the arrays, and slopes[i] is   *)
(* the least-squares slope of the cumulative series over that window.      *)
(***************************************************************************)
C9_WindowSlopes ==
    (ValidInput /\ pc # "L47") =>
        /\ IsRunningSum
        /\ Len(slopes) > 0 => SlopeIsWindowFit(Len(slopes))
        /\ pc = "L66" => \A k \in 1..366 : SlopeIsWindowFit(k)

C9_Witness ==
    /\ ValidInput /\ pc = "L66" /\ slope_window = 5
    /\ Cardinality({slopes[k] : k \in 1..366}) >= 3

====
